---- MODULE Spec2Model ----
(***************************************************************************)
(* A model of the DevSecTools Go SDK (package devsectools): the client     *)
(* configuration, the request executor makeRequest, the typed accessors    *)
(* Domain / HTTP / TLS with the JSON shapes they decode, and the           *)
(* concurrent Batch coordinator.                                           *)
(*                                                                         *)
(* Conventions.  A Go string is a sequence of tokens (the empty string is  *)
(* <<>>, concatenation is \o).  A Go error is a record [kind, msg]; the    *)
(* nil error is NoErr.  A pointer is an address (a tuple); the nil pointer *)
(* is Nil; heap maps every allocated address to [type, val].  A Go slice   *)
(* is [isNil, elems].  A JSON value is a record tagged by t.               *)
(***************************************************************************)
EXTENDS Integers, Sequences, FiniteSets, TLC

VARIABLES
    config,      \* Client.config: [Endpoint, Timeout]
    httpClient,  \* Client.httpClient: [Timeout]
    ctx,         \* the caller's context: "active", "canceled" or "expired"
    heap,        \* allocated response objects, by address
    single,      \* the single typed-accessor call in progress
    requests,    \* the []BatchRequest slice handed to Batch
    submitted,   \* the slice as it was when Batch was called
    batchPc,     \* position of the Batch call: "idle", "spawn", "wait", "returned"
    loopIdx,     \* the loop variable i of Batch (1-based)
    wg,          \* the sync.WaitGroup counter of Batch
    unit,        \* the goroutines of Batch, one per spawned descriptor
    now,         \* the clock of a session, in seconds
    clients,     \* the clients of a session, by name: [config, httpClient]
    log,         \* the single requests of a session, in the order they started
    asked        \* per client, the settings its callers asked for last

vars == <<config, httpClient, ctx, heap, single, requests, submitted,
          batchPc, loopIdx, wg, unit, now, clients, log, asked>>

SessionVars == <<now, clients, log, asked>>

-----------------------------------------------------------------------------
(* Bounds of the model *)

\* largest batch handed to Batch
MaxRequests == 2

-----------------------------------------------------------------------------
(* Endpoints, defaults and client construction *)

PRODUCTION == [BaseURL |-> <<"https://api.devsec.tools">>]

LOCALDEV == [BaseURL |-> <<"http://api.devsec.local">>]

\* seconds
DefaultTimeout == 5

NewClientWithConfig(cfg) ==
    [config |-> cfg, httpClient |-> [Timeout |-> cfg.Timeout]]

NewClient == NewClientWithConfig([Endpoint |-> PRODUCTION, Timeout |-> DefaultTimeout])

-----------------------------------------------------------------------------
(* Errors *)

NoErr == [kind |-> "nil", msg |-> <<>>]

ErrorsNewNilOnEmpty(text) ==
    IF text = <<>> THEN [kind |-> "nil", msg |-> <<>>]
    ELSE [kind |-> "errors.New", msg |-> text]

\* errors.New(text)
ErrorsNew(text) == [kind |-> "errors.New", msg |-> text]

\* the *url.Error of http.NewRequestWithContext for an unparsable URL
UrlParseErr == [kind |-> "url", msg |-> <<"invalid control character in URL">>]

\* a connection / DNS / TLS failure reported by httpClient.Do
TransportErr == [kind |-> "transport", msg |-> <<"connection refused">>]

\* ctx.Err() of a cancelled or expired context, as reported by httpClient.Do
ContextErr(why) ==
    [kind |-> "context",
     msg  |-> IF why = "canceled" THEN <<"context canceled">>
                                  ELSE <<"context deadline exceeded">>]

\* the error of json.Decoder.Decode (syntax error, io.EOF, UnmarshalTypeError)
DecodeErr == [kind |-> "json", msg |-> <<"cannot decode response body">>]

IsContextErr(e) == e.kind = "context"

-----------------------------------------------------------------------------
(* JSON values *)

JNull == [t |-> "null", v |-> <<>>]

JStr(s) == [t |-> "string", v |-> s]

JBool(b) == [t |-> "bool", v |-> b]

JNum(n) == [t |-> "number", v |-> n]

JArr(a) == [t |-> "array", v |-> a]

JObj(o) == [t |-> "object", v |-> o]

\* stands for the value of a key that an object does not have
JAbsent == [t |-> "absent", v |-> <<>>]

\* what an object offers to the struct field tagged `json:"key"`
Field(o, key) == IF key \in DOMAIN o THEN o[key] ELSE JAbsent

\* null, like a missing key, leaves a Go value as it is
Skipped(j) == j.t \in {"null", "absent"}

\* outcome of decoding one JSON value: the destination's value afterwards,
\* and whether encoding/json reports no error
Decoded(val, ok) == [val |-> val, ok |-> ok]

\* encoding/json into a Go string holding cur; any other JSON type is an
\* UnmarshalTypeError that leaves the string alone
UnmarshalString(j, cur) == IF j.t = "string" THEN j.v ELSE cur

StringOk(j) == j.t = "string" \/ Skipped(j)

UnmarshalBool(j, cur) == IF j.t = "bool" THEN j.v ELSE cur

BoolOk(j) == j.t = "bool" \/ Skipped(j)

UnmarshalInt(j, cur) == IF j.t = "number" THEN j.v ELSE cur

IntOk(j) == j.t = "number" \/ Skipped(j)

NilSlice == [isNil |-> TRUE, elems |-> <<>>]

MakeSlice(elems) == [isNil |-> FALSE, elems |-> elems]

-----------------------------------------------------------------------------
(* Response types and their JSON shapes: T(j, cur) is the value of a T     *)
(* holding cur after the JSON value j is decoded into it, TOk(j) says      *)
(* that the decoding reports no error                                      *)

ZeroDomainResponse == [Hostname |-> <<>>]

ZeroHttpResponse ==
    [Hostname |-> <<>>, HTTP11 |-> FALSE, HTTP2 |-> FALSE, HTTP3 |-> FALSE]

ZeroTLSVersions ==
    [TLS10 |-> FALSE, TLS11 |-> FALSE, TLS12 |-> FALSE, TLS13 |-> FALSE]

ZeroCipherSuite ==
    [Authentication |-> <<>>, Encryption |-> <<>>, GnuTLSName |-> <<>>,
     Hash |-> <<>>, IANAName |-> <<>>, IsAEAD |-> FALSE, IsPFS |-> FALSE,
     KeyExchange |-> <<>>, OpenSSLName |-> <<>>, Strength |-> <<>>, URL |-> <<>>]

ZeroTlsConnection ==
    [Version |-> <<>>, VersionID |-> 0, CipherSuites |-> NilSlice]

ZeroTlsResponse ==
    [Hostname |-> <<>>, TLSVersions |-> ZeroTLSVersions, TLSConn |-> NilSlice]

ZeroErrorResponse == [Error |-> <<>>]

DomainResponse(j, cur) ==
    IF j.t # "object" THEN cur
    ELSE [Hostname |-> UnmarshalString(Field(j.v, "hostname"), cur.Hostname)]

DomainResponseOk(j) ==
    IF j.t # "object" THEN Skipped(j)
    ELSE /\ StringOk(Field(j.v, "hostname"))

HttpResponseSwappedTags(j, cur) ==
    IF j.t # "object" THEN cur
    ELSE [Hostname |-> UnmarshalString(Field(j.v, "hostname"), cur.Hostname),
          HTTP11 |-> UnmarshalBool(Field(j.v, "http11"), cur.HTTP11),
          HTTP2 |-> UnmarshalBool(Field(j.v, "http3"), cur.HTTP2),
          HTTP3 |-> UnmarshalBool(Field(j.v, "http2"), cur.HTTP3)]

HttpResponse(j, cur) ==
    IF j.t # "object" THEN cur
    ELSE [Hostname |-> UnmarshalString(Field(j.v, "hostname"), cur.Hostname),
          HTTP11 |-> UnmarshalBool(Field(j.v, "http11"), cur.HTTP11),
          HTTP2 |-> UnmarshalBool(Field(j.v, "http2"), cur.HTTP2),
          HTTP3 |-> UnmarshalBool(Field(j.v, "http3"), cur.HTTP3)]

HttpResponseOk(j) ==
    IF j.t # "object" THEN Skipped(j)
    ELSE /\ StringOk(Field(j.v, "hostname"))
         /\ BoolOk(Field(j.v, "http11"))
         /\ BoolOk(Field(j.v, "http2"))
         /\ BoolOk(Field(j.v, "http3"))

TLSVersions(j, cur) ==
    IF j.t # "object" THEN cur
    ELSE [TLS10 |-> UnmarshalBool(Field(j.v, "tls10"), cur.TLS10),
          TLS11 |-> UnmarshalBool(Field(j.v, "tls11"), cur.TLS11),
          TLS12 |-> UnmarshalBool(Field(j.v, "tls12"), cur.TLS12),
          TLS13 |-> UnmarshalBool(Field(j.v, "tls13"), cur.TLS13)]

TLSVersionsOk(j) ==
    IF j.t # "object" THEN Skipped(j)
    ELSE /\ BoolOk(Field(j.v, "tls10"))
         /\ BoolOk(Field(j.v, "tls11"))
         /\ BoolOk(Field(j.v, "tls12"))
         /\ BoolOk(Field(j.v, "tls13"))

CipherSuite(j, cur) ==
    IF j.t # "object" THEN cur
    ELSE [Authentication |-> UnmarshalString(Field(j.v, "authentication"), cur.Authentication),
          Encryption |-> UnmarshalString(Field(j.v, "encryption"), cur.Encryption),
          GnuTLSName |-> UnmarshalString(Field(j.v, "gnutlsName"), cur.GnuTLSName),
          Hash |-> UnmarshalString(Field(j.v, "hash"), cur.Hash),
          IANAName |-> UnmarshalString(Field(j.v, "ianaName"), cur.IANAName),
          IsAEAD |-> UnmarshalBool(Field(j.v, "isAEAD"), cur.IsAEAD),
          IsPFS |-> UnmarshalBool(Field(j.v, "isPFS"), cur.IsPFS),
          KeyExchange |-> UnmarshalString(Field(j.v, "keyExchange"), cur.KeyExchange),
          OpenSSLName |-> UnmarshalString(Field(j.v, "opensslName"), cur.OpenSSLName),
          Strength |-> UnmarshalString(Field(j.v, "strength"), cur.Strength),
          URL |-> UnmarshalString(Field(j.v, "url"), cur.URL)]

CipherSuiteOk(j) ==
    IF j.t # "object" THEN Skipped(j)
    ELSE /\ StringOk(Field(j.v, "authentication"))
         /\ StringOk(Field(j.v, "encryption"))
         /\ StringOk(Field(j.v, "gnutlsName"))
         /\ StringOk(Field(j.v, "hash"))
         /\ StringOk(Field(j.v, "ianaName"))
         /\ BoolOk(Field(j.v, "isAEAD"))
         /\ BoolOk(Field(j.v, "isPFS"))
         /\ StringOk(Field(j.v, "keyExchange"))
         /\ StringOk(Field(j.v, "opensslName"))
         /\ StringOk(Field(j.v, "strength"))
         /\ StringOk(Field(j.v, "url"))

\* []CipherSuite: null gives the nil slice, an array is decoded element by element
CipherSuites(j, cur) ==
    IF j.t = "null" THEN NilSlice
    ELSE IF j.t # "array" THEN cur
    ELSE MakeSlice([k \in 1..Len(j.v) |-> CipherSuite(j.v[k], ZeroCipherSuite)])

CipherSuitesOk(j) ==
    IF j.t = "array" THEN \A k \in 1..Len(j.v) : CipherSuiteOk(j.v[k])
    ELSE Skipped(j)

TlsConnection(j, cur) ==
    IF j.t # "object" THEN cur
    ELSE [Version |-> UnmarshalString(Field(j.v, "version"), cur.Version),
          VersionID |-> UnmarshalInt(Field(j.v, "versionId"), cur.VersionID),
          CipherSuites |-> CipherSuites(Field(j.v, "cipherSuites"), cur.CipherSuites)]

TlsConnectionOk(j) ==
    IF j.t # "object" THEN Skipped(j)
    ELSE /\ StringOk(Field(j.v, "version"))
         /\ IntOk(Field(j.v, "versionId"))
         /\ CipherSuitesOk(Field(j.v, "cipherSuites"))

\* []TlsConnection: null gives the nil slice, an array is decoded element by element
TlsConnections(j, cur) ==
    IF j.t = "null" THEN NilSlice
    ELSE IF j.t # "array" THEN cur
    ELSE MakeSlice([k \in 1..Len(j.v) |-> TlsConnection(j.v[k], ZeroTlsConnection)])

TlsConnectionsOk(j) ==
    IF j.t = "array" THEN \A k \in 1..Len(j.v) : TlsConnectionOk(j.v[k])
    ELSE Skipped(j)

TlsResponse(j, cur) ==
    IF j.t # "object" THEN cur
    ELSE [Hostname |-> UnmarshalString(Field(j.v, "hostname"), cur.Hostname),
          TLSVersions |-> TLSVersions(Field(j.v, "tlsVersions"), cur.TLSVersions),
          TLSConn |-> TlsConnections(Field(j.v, "tlsConnections"), cur.TLSConn)]

TlsResponseOk(j) ==
    IF j.t # "object" THEN Skipped(j)
    ELSE /\ StringOk(Field(j.v, "hostname"))
         /\ TLSVersionsOk(Field(j.v, "tlsVersions"))
         /\ TlsConnectionsOk(Field(j.v, "tlsConnections"))

\* encoding/json matches the keys of an object to a field without regard to
\* case, so that an object may carry several members for one field; they are
\* decoded one after the other, a member of the wrong type being skipped
\* with an error while the others are still stored.  A second spelling is
\* followed for ErrorResponse; it stands before "error" in the document.
ErrorResponse(j, cur) ==
    IF j.t # "object" THEN cur
    ELSE [Error |-> UnmarshalString(Field(j.v, "error"),
                      UnmarshalString(Field(j.v, "ERROR"), cur.Error))]

ErrorResponseOk(j) ==
    IF j.t # "object" THEN Skipped(j)
    ELSE /\ StringOk(Field(j.v, "ERROR"))
         /\ StringOk(Field(j.v, "error"))

-----------------------------------------------------------------------------
(* json.Marshal of the response types, as a server built on them encodes *)

MarshalString(s) == JStr(s)

MarshalDomainResponse(s) == JObj([hostname |-> MarshalString(s.Hostname)])

MarshalHttpResponse(s) ==
    JObj([hostname |-> MarshalString(s.Hostname), http11 |-> JBool(s.HTTP11),
          http2 |-> JBool(s.HTTP2), http3 |-> JBool(s.HTTP3)])

MarshalTLSVersions(s) ==
    JObj([tls10 |-> JBool(s.TLS10), tls11 |-> JBool(s.TLS11),
          tls12 |-> JBool(s.TLS12), tls13 |-> JBool(s.TLS13)])

MarshalCipherSuite(s) ==
    JObj([authentication |-> MarshalString(s.Authentication),
          encryption |-> MarshalString(s.Encryption),
          gnutlsName |-> MarshalString(s.GnuTLSName),
          hash |-> MarshalString(s.Hash),
          ianaName |-> MarshalString(s.IANAName),
          isAEAD |-> JBool(s.IsAEAD), isPFS |-> JBool(s.IsPFS),
          keyExchange |-> MarshalString(s.KeyExchange),
          opensslName |-> MarshalString(s.OpenSSLName),
          strength |-> MarshalString(s.Strength),
          url |-> MarshalString(s.URL)])

\* a nil slice is encoded as null, any other slice as an array
MarshalCipherSuites(sl) ==
    IF sl.isNil THEN JNull
    ELSE JArr([k \in 1..Len(sl.elems) |-> MarshalCipherSuite(sl.elems[k])])

MarshalTlsConnection(s) ==
    JObj([version |-> MarshalString(s.Version), versionId |-> JNum(s.VersionID),
          cipherSuites |-> MarshalCipherSuites(s.CipherSuites)])

MarshalTlsConnections(sl) ==
    IF sl.isNil THEN JNull
    ELSE JArr([k \in 1..Len(sl.elems) |-> MarshalTlsConnection(sl.elems[k])])

MarshalTlsResponse(s) ==
    JObj([hostname |-> MarshalString(s.Hostname),
          tlsVersions |-> MarshalTLSVersions(s.TLSVersions),
          tlsConnections |-> MarshalTlsConnections(s.TLSConn)])

MarshalErrorResponse(s) == JObj([error |-> MarshalString(s.Error)])

ResponseTypes == {"DomainResponse", "HttpResponse", "TlsResponse"}

\* the zero value of `var response T`
Zero(type) ==
    CASE type = "DomainResponse" -> ZeroDomainResponse
      [] type = "HttpResponse"   -> ZeroHttpResponse
      [] type = "TlsResponse"    -> ZeroTlsResponse
      [] type = "ErrorResponse"  -> ZeroErrorResponse

\* json.Unmarshal of a JSON value into a destination of the given type
Unmarshal(type, j, cur) ==
    CASE type = "DomainResponse" ->
            Decoded(DomainResponse(j, cur), DomainResponseOk(j))
      [] type = "HttpResponse" ->
            Decoded(HttpResponse(j, cur), HttpResponseOk(j))
      [] type = "TlsResponse" ->
            Decoded(TlsResponse(j, cur), TlsResponseOk(j))
      [] type = "ErrorResponse" ->
            Decoded(ErrorResponse(j, cur), ErrorResponseOk(j))

Marshal(type, s) ==
    CASE type = "DomainResponse" -> MarshalDomainResponse(s)
      [] type = "HttpResponse"   -> MarshalHttpResponse(s)
      [] type = "TlsResponse"    -> MarshalTlsResponse(s)
      [] type = "ErrorResponse"  -> MarshalErrorResponse(s)

-----------------------------------------------------------------------------
(* Values a server holds and the bodies it sends *)

Host == <<"example.com">>

SampleCipherSuite ==
    [Authentication |-> <<"RSA">>, Encryption |-> <<"AES-128-GCM">>,
     GnuTLSName |-> <<"TLS_RSA_AES_128_GCM_SHA256">>, Hash |-> <<"SHA256">>,
     IANAName |-> <<"TLS_RSA_WITH_AES_128_GCM_SHA256">>, IsAEAD |-> TRUE,
     IsPFS |-> FALSE, KeyExchange |-> <<"ECDHE">>,
     OpenSSLName |-> <<"AES128-GCM-SHA256">>, Strength |-> <<"strong">>,
     URL |-> <<"https://ciphersuite.info">>]

SampleTlsConnection ==
    [Version |-> <<"TLS v1.2">>, VersionID |-> 771,
     CipherSuites |-> MakeSlice(<<SampleCipherSuite>>)]

\* the structs a server encodes, per response type
ServerStructs(type) ==
    CASE type = "DomainResponse" -> {[Hostname |-> Host], ZeroDomainResponse}
      [] type = "HttpResponse" ->
            {[Hostname |-> Host, HTTP11 |-> TRUE, HTTP2 |-> FALSE, HTTP3 |-> FALSE],
             [Hostname |-> Host, HTTP11 |-> FALSE, HTTP2 |-> TRUE, HTTP3 |-> FALSE],
             [Hostname |-> Host, HTTP11 |-> FALSE, HTTP2 |-> FALSE, HTTP3 |-> TRUE]}
      [] type = "TlsResponse" ->
            {ZeroTlsResponse,
             [Hostname |-> Host,
              TLSVersions |-> [TLS10 |-> TRUE, TLS11 |-> FALSE,
                               TLS12 |-> FALSE, TLS13 |-> FALSE],
              TLSConn |-> MakeSlice(<<>>)],
             [Hostname |-> Host,
              TLSVersions |-> [TLS10 |-> FALSE, TLS11 |-> TRUE,
                               TLS12 |-> FALSE, TLS13 |-> FALSE],
              TLSConn |-> MakeSlice(<<[Version |-> <<"TLS v1.3">>, VersionID |-> 772,
                                       CipherSuites |-> MakeSlice(<<>>)]>>)],
             [Hostname |-> Host,
              TLSVersions |-> [TLS10 |-> FALSE, TLS11 |-> FALSE,
                               TLS12 |-> TRUE, TLS13 |-> TRUE],
              TLSConn |-> MakeSlice(<<SampleTlsConnection>>)]}
      [] type = "ErrorResponse" -> {[Error |-> <<"bad host">>], ZeroErrorResponse}

\* a response body: nothing at all, text that is not JSON, or one JSON value
EmptyBody == [kind |-> "empty", val |-> JNull]

MalformedBody == [kind |-> "malformed", val |-> JNull]

JsonBody(j) == [kind |-> "json", val |-> j]

\* a body whose "hostname" has the wrong JSON type for every response type
MismatchBody == JsonBody(JObj([hostname |-> JNum(5), http2 |-> JBool(TRUE)]))

\* an error body whose "error" is not a string
BadErrorBody == JsonBody(JObj([error |-> JNum(404)]))

\* an error body with two members for the field Error, one of them a string
TwoErrorsBody ==
    JsonBody(JObj([ERROR |-> JStr(<<"boom">>), error |-> JNum(404)]))

Bodies ==
    UNION {{JsonBody(Marshal(t, s)) : s \in ServerStructs(t)} :
              t \in ResponseTypes \cup {"ErrorResponse"}} \cup
    {EmptyBody, MalformedBody, MismatchBody, BadErrorBody, TwoErrorsBody,
     JsonBody(JNull), JsonBody(JArr(<<>>))}

StatusCodes == {200, 399, 400, 500}

\* json.NewDecoder(resp.Body).Decode(dst)
DecodeBody(type, body, cur) ==
    IF body.kind # "json" THEN Decoded(cur, FALSE)
    ELSE Unmarshal(type, body.val, cur)

-----------------------------------------------------------------------------
(* The request executor: Client.makeRequest *)

\* a control character, which net/url refuses in a URL
CTL == "\\x7f"

\* the scan targets a caller passes
Targets == {Host, <<"exa", CTL, "mple.com">>}

\* fmt.Sprintf("%s%s", c.config.Endpoint.BaseURL, endpoint)
RequestURL(cfg, endpoint) == cfg.Endpoint.BaseURL \o endpoint

\* http.NewRequestWithContext parses the URL and fails on a control character
NewRequestOK(url) == \A k \in 1..Len(url) : url[k] # CTL

\* context.WithTimeout(ctx, timeout): the state of the child at its creation
WithTimeout(c, timeout) ==
    IF c # "active" THEN c
    ELSE IF timeout <= 0 THEN "expired" ELSE "active"

\* what httpClient.Do and the reading of the body come back with
NoNet == [kind |-> "none", err |-> NoErr, status |-> 0, body |-> EmptyBody]

NetError(err) == [kind |-> "error", err |-> err, status |-> 0, body |-> EmptyBody]

NetResponse(status, body) ==
    [kind |-> "response", err |-> NoErr, status |-> status, body |-> body]

Responses == {NetResponse(s, b) : s \in StatusCodes, b \in Bodies}

\* resp.StatusCode >= 400
ErrorStatus == 400

IsErrorStatusAbove(code) == code > ErrorStatus

IsErrorStatus(code) == code >= ErrorStatus

makeRequestStartBlind(cfg, c, endpoint) ==
    LET url == RequestURL(cfg, endpoint)
    IN  IF ~NewRequestOK(url)
        THEN [sent |-> FALSE, url |-> url, err |-> UrlParseErr]
        ELSE [sent |-> TRUE, url |-> url, err |-> NoErr]

\* makeRequest up to the moment the request is on the wire: the request is
\* not sent when its URL does not parse or its context is already done
makeRequestStart(cfg, c, endpoint) ==
    LET url   == RequestURL(cfg, endpoint)
        child == WithTimeout(c, cfg.Timeout)
    IN  IF ~NewRequestOK(url)
        THEN [sent |-> FALSE, url |-> url, err |-> UrlParseErr]
        ELSE IF child # "active"
        THEN [sent |-> FALSE, url |-> url, err |-> ContextErr(child)]
        ELSE [sent |-> TRUE, url |-> url, err |-> NoErr]

httpClientDoDeaf(c, answers) ==
    {NetError(TransportErr), NetError(ContextErr("expired"))} \cup answers

\* the outcomes of a request on the wire: once the context is done the call
\* fails with the context's error; otherwise the transport fails, the
\* request's own timeout expires, or the server answers
httpClientDo(c, answers) ==
    IF c # "active" THEN {NetError(ContextErr(c))}
    ELSE {NetError(TransportErr), NetError(ContextErr("expired"))} \cup answers

BodyCloseLeak(open) == open

\* defer resp.Body.Close(): whatever the body's state, it is closed on return
BodyClose(open) == FALSE

\* what makeRequest leaves behind: the error it returns, the destination's
\* value, which type (if any) a body was decoded as, and whether a response
\* body is still open
Outcome(err, val, decoded, bodyOpen) ==
    [err |-> err, val |-> val, decoded |-> decoded, bodyOpen |-> bodyOpen]

makeRequestFinishSwallow(type, out, cur) ==
    IF out.kind = "error" THEN Outcome(NoErr, cur, "none", FALSE)
    ELSE IF IsErrorStatus(out.status)
    THEN LET errResp == DecodeBody("ErrorResponse", out.body, ZeroErrorResponse).val
         IN  Outcome(ErrorsNew(errResp.Error), cur, "ErrorResponse", BodyClose(TRUE))
    ELSE LET d == DecodeBody(type, out.body, cur)
         IN  Outcome(IF d.ok THEN NoErr ELSE DecodeErr, d.val, type, BodyClose(TRUE))

\* makeRequest from the return of httpClient.Do on; cur is the value that
\* the destination `result` points to
makeRequestFinish(type, out, cur) ==
    IF out.kind = "error" THEN Outcome(out.err, cur, "none", FALSE)
    ELSE IF IsErrorStatus(out.status)
    THEN LET errResp == DecodeBody("ErrorResponse", out.body, ZeroErrorResponse).val
         IN  Outcome(ErrorsNew(errResp.Error), cur, "ErrorResponse", BodyClose(TRUE))
    ELSE LET d == DecodeBody(type, out.body, cur)
         IN  Outcome(IF d.ok THEN NoErr ELSE DecodeErr, d.val, type, BodyClose(TRUE))

-----------------------------------------------------------------------------
(* The typed accessors *)

Nil == <<>>

\* each accessor fixes the destination type and the path of the GET
Domain(url) == [type |-> "DomainResponse", path |-> <<"/domain?url=">> \o url]

HTTP(url) == [type |-> "HttpResponse", path |-> <<"/http?url=">> \o url]

TLS(url) == [type |-> "TlsResponse", path |-> <<"/tls?url=">> \o url]

AccessorMethods == {<<"domain">>, <<"http">>, <<"tls">>}

Accessor(method, url) ==
    CASE method = <<"domain">> -> Domain(url)
      [] method = <<"http">>   -> HTTP(url)
      [] method = <<"tls">>    -> TLS(url)

AccessorReturnNilOnError(addr, err) ==
    [response |-> IF err # NoErr THEN <<>> ELSE addr, err |-> err]

\* return &response, err
AccessorReturn(addr, err) == [response |-> addr, err |-> err]

\* `var response T` of an accessor call
NewResponse(type) == [type |-> type, val |-> Zero(type)]

-----------------------------------------------------------------------------
(* A single accessor call *)

SingleAddr == <<"single">>

NoCall ==
    [pc |-> "idle", method |-> <<>>, url |-> <<>>, sent |-> <<>>, calls |-> 0,
     net |-> NoNet, response |-> Nil, err |-> NoErr, decoded |-> "none",
     bodyOpen |-> FALSE]

BatchVars == <<requests, submitted, batchPc, loopIdx, wg, unit>>

\* the accessor allocates its response, and makeRequest runs up to Do
SingleStart ==
    /\ single.pc = "call"
    /\ LET acc == Accessor(single.method, single.url)
           st  == makeRequestStart(config, ctx, acc.path)
           ret == AccessorReturn(SingleAddr, st.err)
       IN  /\ heap' = heap @@ (SingleAddr :> NewResponse(acc.type))
           /\ IF st.sent
              THEN single' = [single EXCEPT !.pc = "inflight", !.sent = st.url,
                                            !.calls = @ + 1]
              ELSE single' = [single EXCEPT !.pc = "returned",
                                            !.response = ret.response,
                                            !.err = ret.err]
    /\ UNCHANGED <<SessionVars, config, httpClient, ctx, BatchVars>>

\* Do returns, makeRequest finishes and the accessor returns
SingleFinish ==
    /\ single.pc = "inflight"
    /\ \E out \in httpClientDo(ctx, Responses) :
         LET acc == Accessor(single.method, single.url)
             fin == makeRequestFinish(acc.type, out, heap[SingleAddr].val)
             ret == AccessorReturn(SingleAddr, fin.err)
         IN  /\ heap' = [heap EXCEPT ![SingleAddr].val = fin.val]
             /\ single' = [single EXCEPT !.pc = "returned", !.net = out,
                                         !.response = ret.response,
                                         !.err = ret.err,
                                         !.decoded = fin.decoded,
                                         !.bodyOpen = fin.bodyOpen]
    /\ UNCHANGED <<SessionVars, config, httpClient, ctx, BatchVars>>

\* the caller cancels the context
CancelCtx ==
    /\ ctx = "active"
    /\ ctx' = "canceled"
    /\ UNCHANGED <<SessionVars, config, httpClient, heap, single, BatchVars>>

\* the deadline of the caller's context passes
ExpireCtx ==
    /\ ctx = "active"
    /\ ctx' = "expired"
    /\ UNCHANGED <<SessionVars, config, httpClient, heap, single, BatchVars>>

\* no session is going on
NoSession ==
    /\ now = 0
    /\ clients = <<>>
    /\ log = <<>>
    /\ asked = <<>>

CtxStates == {"active", "canceled", "expired"}

NoHeap == [a \in {} |-> NewResponse("DomainResponse")]

InitSingle ==
    /\ config = NewClient.config
    /\ httpClient = NewClient.httpClient
    /\ ctx \in CtxStates
    /\ heap = NoHeap
    /\ \E m \in AccessorMethods, u \in Targets :
         single = [NoCall EXCEPT !.pc = "call", !.method = m, !.url = u]
    /\ requests = <<>>
    /\ submitted = <<>>
    /\ batchPc = "idle"
    /\ loopIdx = 1
    /\ wg = 0
    /\ unit = <<>>
    /\ NoSession

NextSingle == SingleStart \/ SingleFinish \/ CancelCtx \/ ExpireCtx

SpecSingle == InitSingle /\ [][NextSingle]_vars

-----------------------------------------------------------------------------
(* The batch coordinator: Client.Batch *)

\* the method tags of the descriptors: the three supported ones and a bad one
Methods == AccessorMethods \cup {<<"dns">>}

\* BatchRequest{Method, URL, Result, Err}
BatchRequest(method, url, result, err) ==
    [Method |-> method, URL |-> url, Result |-> result, Err |-> err]

\* an error left in a descriptor by an earlier, failed batch
PriorErr == TransportErr

\* how the caller built the descriptors: with nothing in Result and Err, as
\* the README does (Result: &T{}), or taken over from an earlier failed batch
Styles == {"bare", "readme", "reused"}

CallerAddr(i) == <<"caller", i>>

UnitAddrOfCaller(i) == <<"caller", i>>

\* the address of the `var response T` of the accessor called by goroutine i
UnitAddr(i) == <<"unit", i>>

\* the type of the destination the README puts into a descriptor
ReadmeType(method) ==
    IF method \in AccessorMethods THEN Accessor(method, Host).type
    ELSE "DomainResponse"

\* Result is an interface{}: a caller may as well put in a pointer to a
\* response of another type than the one the tag stands for
MistypedType(method) ==
    CASE method = <<"domain">> -> "HttpResponse"
      [] method = <<"http">>   -> "TlsResponse"
      [] OTHER                 -> "DomainResponse"

\* the type of the destination a caller puts into a descriptor
CallerType(style, method) ==
    IF style = "mistyped" THEN MistypedType(method) ELSE ReadmeType(method)

\* the struct the server holds for a batch item
BatchStruct(type) ==
    CASE type = "DomainResponse" -> [Hostname |-> Host]
      [] type = "HttpResponse" ->
            [Hostname |-> Host, HTTP11 |-> TRUE, HTTP2 |-> FALSE, HTTP3 |-> FALSE]
      [] type = "TlsResponse" ->
            [Hostname |-> Host,
             TLSVersions |-> [TLS10 |-> FALSE, TLS11 |-> FALSE,
                              TLS12 |-> TRUE, TLS13 |-> TRUE],
             TLSConn |-> MakeSlice(<<SampleTlsConnection>>)]

\* the answers of the server to the request of a batch item
BatchAnswers(type) ==
    {NetResponse(200, JsonBody(Marshal(type, BatchStruct(type)))),
     NetResponse(200, MismatchBody),
     NetResponse(500, JsonBody(Marshal("ErrorResponse", [Error |-> <<"bad host">>])))}

NoUnit ==
    [pc |-> "none", sent |-> <<>>, calls |-> 0, net |-> NoNet, err |-> NoErr,
     decoded |-> "none", bodyOpen |-> FALSE]

InvalidMethodErrNoTag(method) == ErrorsNew(<<"invalid batch request method">>)

\* errors.New("invalid batch request method: " + req.Method)
InvalidMethodErr(method) ==
    ErrorsNew(<<"invalid batch request method: ">> \o method)

StoreOutcomeClearing(req, ret) ==
    [req EXCEPT !.Result = ret.response, !.Err = ret.err]

\* req.Result, err = c.Domain(ctx, req.URL); if err != nil { req.Err = err }
StoreOutcome(req, ret) ==
    [req EXCEPT !.Result = ret.response,
                !.Err = IF ret.err # NoErr THEN ret.err ELSE @]

\* the default case of the switch: only the error is stored
StoreInvalid(req) == [req EXCEPT !.Err = InvalidMethodErr(req.Method)]

WaitDoneNoBarrier(counter) == TRUE

\* wg.Wait() returns once the counter is zero
WaitDone(counter) == counter = 0

\* which descriptor the goroutine spawned in iteration i works on: &requests[i]
UnitTarget(i) == i

SingleVars == <<single>>

\* one iteration of the loop: wg.Add(1); go func(req) {...}(&requests[i])
BatchSpawn ==
    /\ batchPc = "spawn"
    /\ loopIdx <= Len(requests)
    /\ wg' = wg + 1
    /\ unit' = [unit EXCEPT ![loopIdx].pc = "spawned"]
    /\ loopIdx' = loopIdx + 1
    /\ UNCHANGED <<SessionVars, config, httpClient, ctx, heap, requests, submitted, batchPc,
                   SingleVars>>

\* the loop is over: the caller moves on to wg.Wait()
BatchLoopEnd ==
    /\ batchPc = "spawn"
    /\ loopIdx > Len(requests)
    /\ batchPc' = "wait"
    /\ UNCHANGED <<SessionVars, config, httpClient, ctx, heap, requests, submitted, loopIdx,
                   wg, unit, SingleVars>>

\* wg.Wait() returns, and so does Batch
BatchReturn ==
    /\ batchPc = "wait"
    /\ WaitDone(wg)
    /\ batchPc' = "returned"
    /\ UNCHANGED <<SessionVars, config, httpClient, ctx, heap, requests, submitted, loopIdx,
                   wg, unit, SingleVars>>

\* goroutine i runs the switch: a bad tag stores its error at once; a good
\* tag calls its accessor, whose makeRequest runs up to Do
UnitStart(i) ==
    /\ i \in 1..Len(unit)
    /\ unit[i].pc = "spawned"
    /\ LET r   == UnitTarget(i)
           req == requests[r]
       IN  IF req.Method \notin AccessorMethods
           THEN /\ requests' = [requests EXCEPT ![r] = StoreInvalid(req)]
                /\ unit' = [unit EXCEPT ![i].pc = "written",
                                        ![i].err = InvalidMethodErr(req.Method)]
                /\ heap' = heap
           ELSE LET acc == Accessor(req.Method, req.URL)
                    st  == makeRequestStart(config, ctx, acc.path)
                    ret == AccessorReturn(UnitAddr(i), st.err)
                IN  /\ heap' = heap @@ (UnitAddr(i) :> NewResponse(acc.type))
                    /\ IF st.sent
                       THEN /\ unit' = [unit EXCEPT ![i].pc = "inflight",
                                                    ![i].sent = st.url,
                                                    ![i].calls = @ + 1]
                            /\ requests' = requests
                       ELSE /\ unit' = [unit EXCEPT ![i].pc = "written",
                                                    ![i].err = ret.err]
                            /\ requests' = [requests EXCEPT
                                              ![r] = StoreOutcome(req, ret)]
    /\ UNCHANGED <<SessionVars, config, httpClient, ctx, submitted, batchPc, loopIdx, wg,
                   SingleVars>>

\* Do returns in goroutine i: makeRequest finishes, the accessor returns and
\* the goroutine stores the outcome in its descriptor
UnitFinish(i) ==
    /\ i \in 1..Len(unit)
    /\ unit[i].pc = "inflight"
    /\ LET r   == UnitTarget(i)
           req == requests[r]
           acc == Accessor(req.Method, req.URL)
       IN  \E out \in httpClientDo(ctx, BatchAnswers(acc.type)) :
             LET fin == makeRequestFinish(acc.type, out, heap[UnitAddr(i)].val)
                 ret == AccessorReturn(UnitAddr(i), fin.err)
             IN  /\ heap' = [heap EXCEPT ![UnitAddr(i)].val = fin.val]
                 /\ requests' = [requests EXCEPT ![r] = StoreOutcome(req, ret)]
                 /\ unit' = [unit EXCEPT ![i].pc = "written", ![i].net = out,
                                         ![i].err = ret.err,
                                         ![i].decoded = fin.decoded,
                                         ![i].bodyOpen = fin.bodyOpen]
    /\ UNCHANGED <<SessionVars, config, httpClient, ctx, submitted, batchPc, loopIdx, wg,
                   SingleVars>>

\* the deferred wg.Done() of goroutine i
UnitDone(i) ==
    /\ i \in 1..Len(unit)
    /\ unit[i].pc = "written"
    /\ wg' = wg - 1
    /\ unit' = [unit EXCEPT ![i].pc = "done"]
    /\ UNCHANGED <<SessionVars, config, httpClient, ctx, heap, requests, submitted, batchPc,
                   loopIdx, SingleVars>>

\* Batch has just been called with a slice of descriptors that carry the
\* given tags and are built in one of the given styles; heap holds the
\* objects their Result slots point to
BatchCalled(tags, styles) ==
    /\ config = NewClient.config
    /\ httpClient = NewClient.httpClient
    /\ ctx \in CtxStates
    /\ single = NoCall
    /\ \E n \in 0..MaxRequests :
         \E m \in [1..n -> tags], st \in styles :
           /\ requests =
                [i \in 1..n |->
                   BatchRequest(m[i], Host,
                                IF st = "bare" THEN Nil ELSE CallerAddr(i),
                                IF st = "reused" THEN PriorErr ELSE NoErr)]
           /\ heap = [a \in {CallerAddr(i) : i \in {k \in 1..n : st # "bare"}}
                        |-> NewResponse(CallerType(st, m[a[2]]))]
           /\ unit = [i \in 1..n |-> NoUnit]
    /\ submitted = requests
    /\ batchPc = "spawn"
    /\ loopIdx = 1
    /\ wg = 0
    /\ NoSession

InitBatch == BatchCalled(Methods, Styles)

\* the batches whose cancellation is followed to the end
InitCancel == BatchCalled({<<"domain">>, <<"tls">>, <<"dns">>}, {"readme"})

\* the batches whose descriptors carry a destination of the caller, of the
\* type of the tag or of another type
InitCaller == BatchCalled(Methods, {"readme", "mistyped"})

UnitStep == \E i \in 1..MaxRequests + 1 : UnitStart(i) \/ UnitFinish(i) \/ UnitDone(i)

BatchStep == BatchSpawn \/ BatchLoopEnd \/ BatchReturn

NextBatch == BatchStep \/ UnitStep \/ CancelCtx \/ ExpireCtx

SpecBatch == InitBatch /\ [][NextBatch]_vars

SpecCaller == InitCaller /\ [][NextBatch]_vars

\* goroutines are scheduled, and a request on the wire ends (at the latest
\* when its timeout expires)
FairBatch ==
    InitCancel /\ [][NextBatch]_vars /\ WF_vars(BatchStep) /\ WF_vars(UnitStep)

-----------------------------------------------------------------------------
(* A session: clients are made and reconfigured, and single requests run   *)
(* one after the other while time passes.  Here Config and Endpoint        *)
(* objects live in heap, and a pointer to one of them is its address; log  *)
(* keeps the latest request and, of the one before it, the timeout.        *)

\* the clock stops here
MaxTime == 2

\* &PRODUCTION and &LOCALDEV
ProductionAddr == <<"PRODUCTION">>

LocaldevAddr == <<"LOCALDEV">>

\* the package-level variables, as they are when the program starts
Globals ==
    (ProductionAddr :> [type |-> "Endpoint", val |-> PRODUCTION]) @@
    (LocaldevAddr :> [type |-> "Endpoint", val |-> LOCALDEV])

\* the names of the clients of a session
ClientNames == {"a", "b"}

\* the &Config{...} that NewClient makes for client k; nobody else holds it
ConfigAddr(k) == <<"config", k>>

\* a &Config{...} the caller builds to make client k with NewClientWithConfig
CallerConfigAddr(k) == <<"cfg", k>>

\* &Endpoint{BaseURL: url} as SetBaseURL allocates it
NewEndpointAddr == <<"endpoint", "new">>

\* where the Endpoint that SetBaseURL made for a Config is kept
EndpointAddr(cfgAddr) == <<"endpoint", cfgAddr[2]>>

\* Config{Endpoint: endpoint, Timeout: timeout}
Config(endpoint, timeout) ==
    [type |-> "Config", val |-> [Endpoint |-> endpoint, Timeout |-> timeout]]

\* Endpoint{BaseURL: url}
Endpoint(url) == [type |-> "Endpoint", val |-> [BaseURL |-> url]]

\* the timeouts callers ask for, in seconds
Timeouts == {1, DefaultTimeout}

\* the base URLs callers pass to SetBaseURL
CustomURLs == {<<"https://scan.example">>}

NewClientAtNoTimeout(h, cfgAddr) ==
    [config |-> cfgAddr, httpClient |-> [Timeout |-> 0]]

\* NewClientWithConfig(config) with the pointer config: the client keeps the
\* pointer, and its http.Client takes the timeout the Config holds now
NewClientAt(h, cfgAddr) ==
    [config |-> cfgAddr,
     httpClient |-> NewClientWithConfig(h[cfgAddr].val).httpClient]

\* c.config.Endpoint = endpoint
SetEndpoint(h, c, endpoint) ==
    [h EXCEPT ![c.config].val.Endpoint = endpoint]

SetBaseURLInPlace(h, c, url, fresh) ==
    [h EXCEPT ![h[c.config].val.Endpoint].val.BaseURL = url]

\* c.config.Endpoint = &Endpoint{BaseURL: url}; fresh is the new address
SetBaseURL(h, c, url, fresh) ==
    [a \in DOMAIN h \cup {fresh} |->
       IF a = fresh THEN Endpoint(url)
       ELSE IF a = c.config THEN [h[a] EXCEPT !.val.Endpoint = fresh]
       ELSE h[a]]

SetTimeoutClientOnly(h, c, timeout) ==
    [heap |-> h, client |-> [c EXCEPT !.httpClient.Timeout = timeout]]

\* c.config.Timeout = timeout; c.httpClient.Timeout = timeout
SetTimeout(h, c, timeout) ==
    [heap   |-> [h EXCEPT ![c.config].val.Timeout = timeout],
     client |-> [c EXCEPT !.httpClient.Timeout = timeout]]

\* c.config with its pointers followed, as makeRequest reads it
ClientConfig(h, c) ==
    [Endpoint |-> h[h[c.config].val.Endpoint].val,
     Timeout  |-> h[c.config].val.Timeout]

\* a deadline, as Context.Deadline() reports it: (deadline, ok)
NoDeadline == [ok |-> FALSE, at |-> 0]

DeadlineAt(t) == [ok |-> TRUE, at |-> t]

Earlier(d, e) ==
    IF ~d.ok THEN e
    ELSE IF ~e.ok THEN d
    ELSE IF d.at <= e.at THEN d ELSE e

\* the deadline of context.WithTimeout(ctx, timeout) made at time t: the
\* earlier of the parent's deadline and t + timeout
WithTimeoutDeadline(parent, t, timeout) ==
    Earlier(parent, DeadlineAt(t + timeout))

\* the deadline http.Client puts on a request started at time t: none when
\* its Timeout is zero
ClientDeadline(hc, t) ==
    IF hc.Timeout > 0 THEN DeadlineAt(t + hc.Timeout) ELSE NoDeadline

\* the state of a context with deadline d at time t
CtxAt(d, t) == IF d.ok /\ d.at <= t THEN "expired" ELSE "active"

\* what is unreachable is collected, and an address is only a name: the
\* objects that stay are the package variables, the Configs of the clients
\* and the Endpoints these point to, where the Endpoint that SetBaseURL
\* made for a Config is kept at the address named after the Config
Kept(h, a) ==
    IF h[a].type = "Config" /\ h[a].val.Endpoint = NewEndpointAddr
    THEN [h[a] EXCEPT !.val.Endpoint = EndpointAddr(a)]
    ELSE h[a]

Live(h, cs) ==
    LET cfgs == {cs[k].config : k \in DOMAIN cs}
    IN  {ProductionAddr, LocaldevAddr} \cup cfgs \cup
        {h[a].val.Endpoint : a \in cfgs}

Collect(h, cs) ==
    LET cfgs  == {cs[k].config : k \in DOMAIN cs}
        moved == {c \in cfgs : h[c].val.Endpoint = NewEndpointAddr}
    IN  [a \in ((DOMAIN h \cap Live(h, cs)) \ {NewEndpointAddr}) \cup
                {EndpointAddr(c) : c \in moved} |->
           IF \E c \in moved : a = EndpointAddr(c) THEN h[NewEndpointAddr]
           ELSE Kept(h, a)]

\* what the callers of a client asked for: a timeout and a base URL, and
\* whether the Config has since been overwritten through another client
Asked(timeout, url) ==
    [Timeout |-> timeout, BaseURL |-> url, timeoutKept |-> TRUE,
     endpointKept |-> TRUE]

\* the clients that use the Config of client k, apart from k
Sharing(cs, k) == {j \in DOMAIN cs \ {k} : cs[j].config = cs[k].config}

\* the requests of the log that are in flight
Running == {n \in 1..Len(log) : log[n].pc = "inflight"}

SingleBatchVars == <<config, httpClient, ctx, single, BatchVars>>

\* NewClient() makes client k
SessionNewClient(k) ==
    /\ k \notin DOMAIN clients
    /\ Running = {}
    /\ LET h == heap @@ (ConfigAddr(k) :> Config(ProductionAddr, DefaultTimeout))
       IN  /\ heap' = h
           /\ clients' = clients @@ (k :> NewClientAt(h, ConfigAddr(k)))
           /\ asked' = asked @@ (k :> Asked(DefaultTimeout, PRODUCTION.BaseURL))
    /\ UNCHANGED <<now, log, SingleBatchVars>>

\* NewClientWithConfig(cfg) makes client k, from a Config the caller has
\* just built or from the Config it made another client from
SessionNewClientWithConfig(k) ==
    /\ k \notin DOMAIN clients
    /\ Running = {}
    /\ \/ \E e \in {ProductionAddr, LocaldevAddr}, t \in Timeouts :
            LET h == heap @@ (CallerConfigAddr(k) :> Config(e, t))
            IN  /\ heap' = h
                /\ clients' = clients @@ (k :> NewClientAt(h, CallerConfigAddr(k)))
                /\ asked' = asked @@ (k :> Asked(t, h[e].val.BaseURL))
       \/ \E j \in {i \in DOMAIN clients : clients[i].config = CallerConfigAddr(i)} :
            LET c == NewClientAt(heap, clients[j].config)
            IN  /\ heap' = heap
                /\ clients' = clients @@ (k :> c)
                /\ asked' = asked @@
                     (k :> Asked(ClientConfig(heap, c).Timeout,
                                 ClientConfig(heap, c).Endpoint.BaseURL))
    /\ UNCHANGED <<now, log, SingleBatchVars>>

\* client k: SetEndpoint(&PRODUCTION) or SetEndpoint(&LOCALDEV)
SessionSetEndpoint(k) ==
    /\ k \in DOMAIN clients
    /\ Running = {}
    /\ \E e \in {ProductionAddr, LocaldevAddr} :
         /\ heap' = Collect(SetEndpoint(heap, clients[k], e), clients)
         /\ asked' = [j \in DOMAIN asked |->
                        IF j = k THEN [asked[j] EXCEPT !.BaseURL = heap[e].val.BaseURL,
                                                       !.endpointKept = TRUE]
                        ELSE IF j \in Sharing(clients, k)
                        THEN [asked[j] EXCEPT !.endpointKept = FALSE]
                        ELSE asked[j]]
    /\ UNCHANGED <<now, clients, log, SingleBatchVars>>

\* client k: SetBaseURL(url)
SessionSetBaseURL(k) ==
    /\ k \in DOMAIN clients
    /\ Running = {}
    /\ \E url \in CustomURLs :
         /\ heap' = Collect(SetBaseURL(heap, clients[k], url,
                                       NewEndpointAddr), clients)
         /\ asked' = [j \in DOMAIN asked |->
                        IF j = k THEN [asked[j] EXCEPT !.BaseURL = url,
                                                       !.endpointKept = TRUE]
                        ELSE IF j \in Sharing(clients, k)
                        THEN [asked[j] EXCEPT !.endpointKept = FALSE]
                        ELSE asked[j]]
    /\ UNCHANGED <<now, clients, log, SingleBatchVars>>

\* client k: SetTimeout(t)
SessionSetTimeout(k) ==
    /\ k \in DOMAIN clients
    /\ Running = {}
    /\ \E t \in Timeouts :
         LET set == SetTimeout(heap, clients[k], t)
         IN  /\ heap' = set.heap
             /\ clients' = [clients EXCEPT ![k] = set.client]
             /\ asked' = [j \in DOMAIN asked |->
                            IF j = k THEN [asked[j] EXCEPT !.Timeout = t,
                                                           !.timeoutKept = TRUE]
                            ELSE IF j \in Sharing(clients, k)
                            THEN [asked[j] EXCEPT !.timeoutKept = FALSE]
                            ELSE asked[j]]
    /\ UNCHANGED <<now, log, SingleBatchVars>>

\* the deadlines a caller puts on the context it passes, at time t
CallerDeadlines(t) == {NoDeadline, DeadlineAt(t + 2)}

\* one request of the log: when it started, the deadline of the caller's
\* context, the timeout and the URL that makeRequest read from the
\* configuration, the deadline the request runs under, and how it went
LogEntry(start, parent, cfg, st, deadline) ==
    [start |-> start, parent |-> parent, timeout |-> cfg.Timeout,
     url |-> st.url, sent |-> st.sent, deadline |-> deadline,
     pc |-> IF st.sent THEN "inflight" ELSE "returned", err |-> st.err]

\* of the request before the latest, the log keeps the timeout it ran with
Settled(e) ==
    [e EXCEPT !.start = 0, !.parent = NoDeadline, !.deadline = NoDeadline,
              !.url = <<>>, !.err = NoErr]

LastOf(l) == IF l = <<>> THEN <<>> ELSE <<Settled(l[Len(l)])>>

\* client k starts a single request (Domain): makeRequest reads the
\* configuration, derives the context and hands the request to the HTTP
\* client, which puts its own timeout on it
SessionStart(k) ==
    /\ k \in DOMAIN clients
    /\ Running = {}
    /\ \E parent \in CallerDeadlines(now) :
         LET c   == clients[k]
             cfg == ClientConfig(heap, c)
             st  == makeRequestStart(cfg, CtxAt(parent, now), Domain(Host).path)
             dl  == Earlier(WithTimeoutDeadline(parent, now, cfg.Timeout),
                            ClientDeadline(c.httpClient, now))
         IN  log' = Append(LastOf(log), LogEntry(now, parent, cfg, st, dl))
    /\ UNCHANGED <<now, heap, clients, asked, SingleBatchVars>>

\* the request in flight ends: with the context's error once its deadline
\* has come, else with an answer
SessionFinish ==
    \E n \in Running :
      /\ log' = [log EXCEPT
                   ![n].pc = "returned",
                   ![n].err = IF CtxAt(log[n].deadline, now) = "expired"
                              THEN ContextErr("expired") ELSE NoErr]
      /\ UNCHANGED <<now, heap, clients, asked, SingleBatchVars>>

\* a second passes while a request is in flight; a request whose deadline
\* has come ends before the next second
Tick ==
    /\ now < MaxTime
    /\ Running # {}
    /\ \A n \in Running : CtxAt(log[n].deadline, now) = "active"
    /\ now' = now + 1
    /\ UNCHANGED <<heap, clients, log, asked, SingleBatchVars>>

InitSession ==
    /\ config = NewClient.config
    /\ httpClient = NewClient.httpClient
    /\ ctx = "active"
    /\ heap = Globals
    /\ single = NoCall
    /\ requests = <<>>
    /\ submitted = <<>>
    /\ batchPc = "idle"
    /\ loopIdx = 1
    /\ wg = 0
    /\ unit = <<>>
    /\ NoSession

ClientStep(k) ==
    \/ SessionNewClient(k)
    \/ SessionNewClientWithConfig(k)
    \/ SessionSetEndpoint(k)
    \/ SessionSetBaseURL(k)
    \/ SessionSetTimeout(k)
    \/ SessionStart(k)

NextSession == (\E k \in ClientNames : ClientStep(k)) \/ SessionFinish \/ Tick

SpecSession == InitSession /\ [][NextSession]_vars

-----------------------------------------------------------------------------
(* Properties of Batch *)

Returned == batchPc = "returned"

Items == 1..Len(requests)

ValidTag(i) == requests[i].Method \in AccessorMethods

\* the call stored something in the Result slot of item i
ResultPopulated(i) == requests[i].Result # submitted[i].Result

ErrPopulated(i) == requests[i].Err # NoErr

\* item i failed in this call: the err of its goroutine is not nil
ItemFailed(i) == unit[i].err # NoErr

\* the text s occurs in the text msg
Contains(msg, s) ==
    \E k \in 0..(Len(msg) - Len(s)) : SubSeq(msg, k + 1, k + Len(s)) = s

\* C1: after Batch returns, every descriptor with a tag among domain/http/tls
\* has exactly one of its result slot and its error slot populated, and a
\* descriptor with an invalid tag has only its error slot populated.
C1_ExactlyOneSlot ==
    Returned =>
      \A i \in Items :
        IF ValidTag(i) THEN ResultPopulated(i) # ErrPopulated(i)
        ELSE ErrPopulated(i) /\ ~ResultPopulated(i)

\* C2: when a batch item fails, Batch stores the error in the descriptor's
\* error slot and leaves its result slot as it was before the call; when the
\* item succeeds, the typed result is in the result slot.
C2_FailureKeepsResultSlot ==
    Returned =>
      \A i \in Items :
        IF ItemFailed(i)
        THEN /\ requests[i].Err = unit[i].err
             /\ requests[i].Result = submitted[i].Result
        ELSE LET type == Accessor(requests[i].Method, requests[i].URL).type
             IN  /\ requests[i].Result \in DOMAIN heap
                 /\ heap[requests[i].Result] =
                      [type |-> type,
                       val  |-> DecodeBody(type, unit[i].net.body, Zero(type)).val]

\* C3: Batch spawns one goroutine per descriptor and returns only when every
\* one of them has finished: when it returns every outcome is written, no
\* goroutine is still running, and nothing writes to a descriptor afterwards.
C3_Barrier ==
    /\ [](Returned =>
            /\ Len(unit) = Len(requests)
            /\ wg = 0
            /\ \A i \in Items : unit[i].pc = "done")
    /\ [][Returned => (requests' = requests /\ heap' = heap /\ unit' = unit)]_vars

C3_Witness ==
    /\ Returned
    /\ Len(requests) >= 2
    /\ \A i \in Items : unit[i].pc = "done" /\ unit[i].net.kind = "response"

\* C4: batch items are isolated: after Batch returns, slot i reflects the
\* outcome of item i alone, so that a batch in which k items fail and the
\* others succeed ends with exactly k populated errors and as many populated
\* results as items succeeded.
C4_SlotsReflectOwnOutcome ==
    Returned =>
      /\ \A i \in Items : ErrPopulated(i) <=> ItemFailed(i)
      /\ Cardinality({i \in Items : ErrPopulated(i)})
           = Cardinality({i \in Items : ItemFailed(i)})
      /\ Cardinality({i \in Items : ResultPopulated(i)})
           = Cardinality({i \in Items : ~ItemFailed(i)})

\* C5: a descriptor whose tag is not domain, http or tls ends with an error
\* whose message contains the tag, keeps the initial value of its result slot,
\* and its goroutine never issues a network call.
C5_InvalidTag ==
    \A i \in Items :
      ~ValidTag(i) =>
        /\ unit[i].calls = 0
        /\ unit[i].pc # "inflight"
        /\ requests[i].Result = submitted[i].Result
        /\ requests[i].Result # Nil =>
             heap[requests[i].Result] = NewResponse(ReadmeType(requests[i].Method))
        /\ unit[i].pc \in {"written", "done"} =>
             /\ requests[i].Err.kind # "nil"
             /\ Contains(requests[i].Err.msg, requests[i].Method)

C5_Witness ==
    /\ Returned
    /\ \E i \in Items :
         /\ requests[i].Method = <<"dns">>
         /\ requests[i].Result = CallerAddr(i)
         /\ requests[i].Err.msg = <<"invalid batch request method: ", "dns">>
         /\ \E j \in Items : unit[j].calls = 1

-----------------------------------------------------------------------------
(* Properties of a single accessor call *)

SingleReturned == single.pc = "returned"

SingleType == Accessor(single.method, single.url).type

\* the value the returned pointer points to
SingleValue == heap[single.response].val

\* C6: a response with status >= 400 and a body {"error": m} makes the
\* accessor return an error whose message is m, and leaves the destination
\* at its zero value.
C6_RemoteError ==
    (/\ SingleReturned
     /\ single.net.kind = "response"
     /\ single.net.status >= 400
     /\ single.net.body.kind = "json"
     /\ single.net.body.val.t = "object"
     /\ "error" \in DOMAIN single.net.body.val.v
     /\ single.net.body.val.v["error"].t = "string")
    => /\ single.err.kind # "nil"
       /\ single.err.msg = single.net.body.val.v["error"].v
       /\ SingleValue = Zero(SingleType)

C6_Witness ==
    /\ SingleReturned
    /\ single.net = NetResponse(400, JsonBody(JObj([error |-> JStr(<<"bad host">>)])))
    /\ single.err.msg = <<"bad host">>
    /\ SingleValue = Zero(SingleType)

\* C7: for each accessor, a response with status < 400 whose body is the
\* JSON encoding of a response struct is decoded into a result equal to that
\* struct, field by field, with no error; whether the body is decoded as a
\* result or as an error depends only on the status being below 400.
C7_SuccessDecode ==
    (SingleReturned /\ single.net.kind = "response") =>
      /\ (single.net.status < 400) <=> (single.decoded = SingleType)
      /\ (single.net.status >= 400) <=> (single.decoded = "ErrorResponse")
      /\ \A s \in ServerStructs(SingleType) :
           (single.net.status < 400
              /\ single.net.body = JsonBody(Marshal(SingleType, s)))
             => (single.err = NoErr /\ SingleValue = s)

C7_Witness ==
    /\ SingleReturned
    /\ single.method = <<"tls">>
    /\ single.net.kind = "response"
    /\ single.net.status = 399
    /\ single.err = NoErr
    /\ SingleValue.TLSConn = MakeSlice(<<SampleTlsConnection>>)
    /\ SingleValue.TLSVersions.TLS13

\* C8: a single request that fails in the transport, or whose context is
\* already cancelled or expired before dispatch, returns an error (the
\* context's error in the latter case), decodes no response body and leaves
\* the destination untouched.
C8_TransportFailure ==
    (SingleReturned /\ single.net.kind # "response") =>
      /\ single.err.kind # "nil"
      /\ single.decoded = "none"
      /\ SingleValue = Zero(SingleType)
      /\ single.net.kind = "error" => single.err = single.net.err
      /\ (single.calls = 0 /\ NewRequestOK(single.url)) =>
           /\ ctx # "active"
           /\ single.err.kind = "context"
           /\ single.err.msg =
                (IF ctx = "canceled" THEN <<"context canceled">>
                                     ELSE <<"context deadline exceeded">>)

C8_Witness ==
    /\ SingleReturned
    /\ ctx = "expired"
    /\ single.calls = 0
    /\ single.err.msg = <<"context deadline exceeded">>
    /\ SingleValue = Zero(SingleType)

\* C10: each accessor returns a non-nil pointer to a response value on every
\* path, and on an error path that did not decode a success body the value
\* pointed to is the zero value.
C10_NonNilResponse ==
    SingleReturned =>
      /\ single.response # Nil
      /\ single.response \in DOMAIN heap
      /\ heap[single.response].type = SingleType
      /\ (single.err # NoErr /\ single.decoded # SingleType) =>
           SingleValue = Zero(SingleType)

C10_Witness ==
    /\ SingleReturned
    /\ single.err = DecodeErr
    /\ single.response = SingleAddr
    /\ single.net.body = MismatchBody
    /\ SingleValue # Zero(SingleType)

C12_BodyClosed ==
    SingleReturned =>
      /\ ~single.bodyOpen
      /\ single.net.kind = "response" =>
           /\ single.decoded \in {SingleType, "ErrorResponse"}
           /\ ~single.bodyOpen

C12_Witness ==
    /\ SingleReturned
    /\ single.net = NetResponse(200, MalformedBody)
    /\ single.err = DecodeErr
    /\ ~single.bodyOpen

\* the response of the call has an error status and a body that does not
\* decode as an ErrorResponse
UndecodableError ==
    /\ SingleReturned
    /\ single.net.kind = "response"
    /\ single.net.status >= 400
    /\ ~DecodeBody("ErrorResponse", single.net.body, ZeroErrorResponse).ok

\* C15 as stated: when the status is >= 400 and the body cannot be decoded as
\* an ErrorResponse, the caller receives a non-nil error whose message is the
\* empty string, and the request is never reported as a success.
C15_EmptyMessage ==
    UndecodableError => (single.err # NoErr /\ single.err.msg = <<>>)

\* C15, amended: when the status is >= 400 and the body cannot be decoded as
\* an ErrorResponse, the decode failure is discarded and the caller receives
\* a non-nil error whose message is what the failed decoding left in the
\* ErrorResponse: the empty string, unless the body is an object in which a
\* member for the field Error was stored although another member failed;
\* the request is never reported as a success and the destination stays zero.
C15_DiscardedDecodeFailure ==
    UndecodableError =>
      /\ single.err # NoErr
      /\ single.err.kind = "errors.New"
      /\ single.err # DecodeErr
      /\ single.err.msg =
           DecodeBody("ErrorResponse", single.net.body, ZeroErrorResponse).val.Error
      /\ single.net.body # TwoErrorsBody => single.err.msg = <<>>
      /\ SingleValue = Zero(SingleType)

C15_Witness ==
    /\ UndecodableError
    /\ single.net = NetResponse(500, MalformedBody)
    /\ single.err = ErrorsNew(<<>>)

-----------------------------------------------------------------------------
(* Frame properties of Batch *)

\* C16: Batch never clears an error slot: every write to Err stores a non-nil
\* error, so after Batch returns the Err of a descriptor is non-nil exactly
\* when the item failed in this call or Err was already non-nil when the
\* descriptor was submitted; a reused descriptor keeps its old error when
\* its new request succeeds.
C16_ErrNeverCleared ==
    /\ [][\A i \in Items :
            /\ requests[i].Err # NoErr => requests'[i].Err # NoErr
            /\ requests'[i].Err # requests[i].Err =>
                 (requests'[i].Err # NoErr /\ requests'[i].Err = unit'[i].err)]_vars
    /\ [](Returned =>
            \A i \in Items :
              /\ ErrPopulated(i) <=> (ItemFailed(i) \/ submitted[i].Err # NoErr)
              /\ ~ItemFailed(i) => requests[i].Err = submitted[i].Err)

C16_Witness ==
    /\ Returned
    /\ \E i \in Items :
         /\ submitted[i].Err = PriorErr
         /\ unit[i].net.kind = "response"
         /\ unit[i].net.status = 200
         /\ ~ItemFailed(i)
         /\ requests[i].Err = PriorErr
         /\ heap[requests[i].Result].val.Hostname = Host

\* the objects the caller put into the Result slots
CallerObjects == {a \in DOMAIN heap : a[1] = "caller"}

-----------------------------------------------------------------------------
(* Properties of a session *)

\* the latest request of the log, after a step
Latest == log'[Len(log')]

\* a step in which a request is started: nothing is in flight and the log
\* changes
Starts == Running = {} /\ log' # log

\* a step that changes the configuration of some client
Reconfigures == heap' # heap \/ clients' # clients

\* client k is reconfigured
Reconfigured(k) ==
    SessionSetEndpoint(k) \/ SessionSetBaseURL(k) \/ SessionSetTimeout(k)

\* client k was made by NewClient
MadeByNewClient(k) == k \in DOMAIN clients /\ clients[k].config = ConfigAddr(k)

\* C13: a request started after SetTimeout(t2) returned runs under the
\* deadline derived from t2, and a request started after SetBaseURL or
\* SetEndpoint returned goes to the new endpoint, while a request that has
\* already completed is not affected by the change: the log keeps what it
\* ran with.
C13_SecondRequestUsesNewSettings ==
    /\ [][\A k \in ClientNames :
            (Starts /\ SessionStart(k)) =>
              /\ asked[k].timeoutKept =>
                   /\ Latest.timeout = asked[k].Timeout
                   /\ Latest.deadline =
                        Earlier(Latest.parent, DeadlineAt(now + asked[k].Timeout))
              /\ asked[k].endpointKept =>
                   Latest.url = asked[k].BaseURL \o Domain(Host).path]_vars
    /\ [][log' # log => ~\E k \in ClientNames : Reconfigured(k)]_vars
    /\ [][(Starts /\ log # <<>>) =>
            /\ Len(log') = Len(<<log[Len(log)], Latest>>)
            /\ log'[1].timeout = log[Len(log)].timeout
            /\ log'[1].pc = "returned"]_vars

C13_Witness ==
    /\ Len(log) > 1
    /\ log[1].timeout = DefaultTimeout
    /\ log[Len(log)].timeout = 1
    /\ log[Len(log)].deadline = DeadlineAt(log[Len(log)].start + 1)
    /\ log[Len(log)].url = <<"https://scan.example">> \o Domain(Host).path
    /\ log[Len(log)].err = ContextErr("expired")

\* C14: the deadline under which a single request runs is the earlier of the
\* deadline of the caller's context, if it has one, and the start time of the
\* request plus the configured timeout, and the request never runs past
\* either of them.
C14_EarlierOfTwo ==
    log # <<>> =>
      LET e == log[Len(log)]
      IN  /\ e.deadline = Earlier(e.parent, DeadlineAt(e.start + e.timeout))
          /\ e.pc = "inflight" =>
               /\ now <= e.start + e.timeout
               /\ e.parent.ok => now <= e.parent.at

C19_EndpointsAndClientsApart ==
    /\ [](/\ heap[ProductionAddr].val.BaseURL = <<"https://api.devsec.tools">>
          /\ heap[LocaldevAddr].val.BaseURL = <<"http://api.devsec.local">>)
    /\ [][\A k \in ClientNames :
            (Reconfigures /\ Reconfigured(k)) =>
              /\ heap'[clients[k].config].val.Endpoint # heap[clients[k].config].val.Endpoint
                   => \A a \in DOMAIN heap \cap DOMAIN heap' :
                        heap[a].type = "Endpoint" => heap'[a] = heap[a]
              /\ \A j \in ClientNames \ {k} :
                   (MadeByNewClient(k) /\ MadeByNewClient(j)) =>
                     /\ clients'[j] = clients[j]
                     /\ ClientConfig(heap', clients'[j]) = ClientConfig(heap, clients[j])]_vars

C19_Witness ==
    /\ \A k \in ClientNames : MadeByNewClient(k)
    /\ \E k \in ClientNames, j \in ClientNames :
         /\ ClientConfig(heap, clients[k]) =
              [Endpoint |-> [BaseURL |-> <<"https://scan.example">>], Timeout |-> 1]
         /\ clients[k].httpClient.Timeout = 1
         /\ ClientConfig(heap, clients[j]) =
              [Endpoint |-> PRODUCTION, Timeout |-> DefaultTimeout]
         /\ clients[j].httpClient.Timeout = DefaultTimeout
    /\ Len(log) > 1

====
